---- MODULE Spec2Model ----
(***************************************************************************)
(* A model of filter_kml.py: the KML colour codec, the style resolver      *)
(* (parse_kml_styles) and the placemark extractor (extract_placemark_data).*)
(*                                                                         *)
(* Python strings are sequences of one-character strings, so that slicing, *)
(* strip(), upper() and the regular expression are computed and not        *)
(* assumed.  Python's None is the value None below, which no string equals.*)
(***************************************************************************)
EXTENDS Integers, Sequences, FiniteSets, TLC

VARIABLES
    pc,               \* position in extract_placemark_data / parse_kml_styles
    file,             \* the input file (what file_path names)
    root,             \* the parsed document: its nodes in document order
    style_map,        \* the dict built by parse_kml_styles (style_lookup)
    idx,              \* position of the running for-loop in its findall list
    placemarks_data,  \* the list extract_placemark_data builds
    result,           \* what the call returned, or the exception that escaped
    parses,           \* number of runs of the XML parser so far
    xml_content,      \* the text the fallback read and cleaned
    kml_color,        \* argument of a direct call of kml_color_to_hex
    hex_color,        \* its return value
    coordinates_text, \* text handed to the coordinate parser
    coords            \* the list of [lon, lat] it built

vars == <<pc, file, root, style_map, idx, placemarks_data, result, parses, xml_content,
          kml_color, hex_color, coordinates_text, coords>>

pipelineVars ==
    <<pc, file, root, style_map, idx, placemarks_data, result, parses, xml_content>>
colorVars == <<kml_color, hex_color>>
coordVars == <<coordinates_text, coords>>

None == <<"None">>
Pending == <<"Pending">>

(***************************************************************************)
(* Bounds of the model.                                                    *)
(***************************************************************************)
MaxColorLen == 9
MaxTuples == 2
MaxNodes == 3
MaxColorStyles == 2
MaxPlacemarks == 2

(***************************************************************************)
(* String helpers: str.upper(), str.strip(), truthiness, slicing.          *)
(***************************************************************************)
Str(s) == [k \in 1..Len(s) |-> s[k]]

UpperChar(c) ==
    CASE c = "a" -> "A" [] c = "b" -> "B" [] c = "c" -> "C"
      [] c = "d" -> "D" [] c = "e" -> "E" [] c = "f" -> "F"
      [] OTHER -> c

Upper(s) == [k \in 1..Len(s) |-> UpperChar(s[k])]

Whitespace == {" ", "\n", "\t", "\r"}

RECURSIVE LStrip(_)
LStrip(s) == IF s # <<>> /\ Head(s) \in Whitespace THEN LStrip(Tail(s)) ELSE s

RECURSIVE RStrip(_)
RStrip(s) ==
    IF s # <<>> /\ s[Len(s)] \in Whitespace THEN RStrip(SubSeq(s, 1, Len(s) - 1)) ELSE s

Strip(s) == RStrip(LStrip(s))

\* bool(x) of an optional string: None and "" are false
Truthy(s) == s # None /\ s # <<>>

\* s[lo:hi] with Python's 0-based, end-exclusive indices
Slice(s, lo, hi) == SubSeq(s, lo + 1, hi)

(***************************************************************************)
(* kml_color_to_hex                                                        *)
(***************************************************************************)
kml_color_to_hex_swapped(c) ==
    IF ~Truthy(c) \/ Len(c) # 8 THEN None
    ELSE Upper(<<"#">> \o Slice(c, 2, 4) \o Slice(c, 4, 6) \o Slice(c, 6, 8))

kml_color_to_hex(c) ==
    IF ~Truthy(c) \/ Len(c) # 8 THEN None
    ELSE LET red == Slice(c, 6, 8)
             green == Slice(c, 4, 6)
             blue == Slice(c, 2, 4)
         IN Upper(<<"#">> \o red \o green \o blue)

HexChars == {"0", "a", "F"}

ColorInputs == {None} \cup UNION {[1..n -> HexChars] : n \in 0..MaxColorLen}

\* the outcome of the call: still running, a returned list, or an exception
\* that escaped to the caller
NotReturned == [state |-> "running", value |-> <<>>, exception |-> "none"]
Returned(list) == [state |-> "returned", value |-> list, exception |-> "none"]
Raised(exc) == [state |-> "raised", value |-> <<>>, exception |-> exc]

NoFile ==
    [exists |-> FALSE, utf8 |-> FALSE, ctrl |-> FALSE,
     wellformed |-> FALSE, doc |-> <<>>]

IdlePipeline ==
    /\ pc = "idle"
    /\ file = NoFile
    /\ root = None
    /\ style_map = <<>>
    /\ idx = 0
    /\ placemarks_data = <<>>
    /\ result = NotReturned
    /\ parses = 0
    /\ xml_content = None

IdleColor == kml_color = None /\ hex_color = Pending
IdleCoords == coordinates_text = None /\ coords = Pending

InitColor ==
    /\ kml_color \in ColorInputs
    /\ hex_color = Pending
    /\ IdlePipeline
    /\ IdleCoords

CallColor ==
    /\ hex_color = Pending
    /\ hex_color' = kml_color_to_hex(kml_color)
    /\ UNCHANGED <<kml_color, pipelineVars, coordVars>>

NextColor == CallColor

SpecColor == InitColor /\ [][NextColor]_vars

(***************************************************************************)
(* The coordinate parser of extract_placemark_data: re.findall on the      *)
(* stripped text with the pattern  DEC "," DEC ALT?  where DEC is a signed *)
(* decimal with a mandatory fraction (optional "-", digits, ".", digits)   *)
(* and ALT is "," optional "-", digits, optional ".", optional digits;     *)
(* then float() of the two DEC groups of every match.                      *)
(* Positions are 1-based; an end position is the first position after the  *)
(* matched text, and 0 stands for "no match".                              *)
(***************************************************************************)
Digits == {"0", "1", "2", "3", "4", "5", "6", "7", "8", "9"}

IsDigit(s, i) == i <= Len(s) /\ s[i] \in Digits

IsChar(s, i, c) == i <= Len(s) /\ s[i] = c

\* a greedy run of digits from position i: the position after the last digit
RECURSIVE SkipDigits(_, _)
SkipDigits(s, i) == IF IsDigit(s, i) THEN SkipDigits(s, i + 1) ELSE i

\* DEC from position i
MatchDecimal(s, i) ==
    LET j == IF IsChar(s, i, "-") THEN i + 1 ELSE i
        k == SkipDigits(s, j)
    IN IF k > j /\ IsChar(s, k, ".") /\ IsDigit(s, k + 1)
       THEN SkipDigits(s, k + 1)
       ELSE 0

\* ALT? from position p: never fails, may match nothing
MatchAltitude(s, p) ==
    IF ~IsChar(s, p, ",") THEN p
    ELSE LET j == IF IsChar(s, p + 1, "-") THEN p + 2 ELSE p + 1
             k == SkipDigits(s, j)
         IN IF k = j THEN p
            ELSE IF IsChar(s, k, ".") THEN SkipDigits(s, k + 1) ELSE k

\* the whole pattern, anchored at position i
MatchAt(s, i) ==
    LET e1 == MatchDecimal(s, i)
        e2 == IF e1 # 0 /\ IsChar(s, e1, ",") THEN MatchDecimal(s, e1 + 1) ELSE 0
    IN IF e2 = 0
       THEN [ok |-> FALSE, lon_str |-> <<>>, lat_str |-> <<>>, end |-> 0]
       ELSE [ok |-> TRUE, lon_str |-> SubSeq(s, i, e1 - 1),
             lat_str |-> SubSeq(s, e1 + 1, e2 - 1), end |-> MatchAltitude(s, e2)]

\* re.findall: leftmost matches, scanning on after the end of each match
RECURSIVE FindAll(_, _)
FindAll(s, i) ==
    IF i > Len(s) THEN <<>>
    ELSE LET m == MatchAt(s, i)
         IN IF m.ok
            THEN <<[lon_str |-> m.lon_str, lat_str |-> m.lat_str]>> \o FindAll(s, m.end)
            ELSE FindAll(s, i + 1)

DigitVal(c) ==
    CASE c = "0" -> 0 [] c = "1" -> 1 [] c = "2" -> 2 [] c = "3" -> 3 [] c = "4" -> 4
      [] c = "5" -> 5 [] c = "6" -> 6 [] c = "7" -> 7 [] c = "8" -> 8 [] c = "9" -> 9

RECURSIVE DigitsValue(_)
DigitsValue(s) ==
    IF s = <<>> THEN 0
    ELSE 10 * DigitsValue(SubSeq(s, 1, Len(s) - 1)) + DigitVal(s[Len(s)])

\* the number m / 10^e in lowest terms of e, so that 1.50 and 1.5 are equal
RECURSIVE Normalize(_, _)
Normalize(m, e) ==
    IF e > 0 /\ m % 10 = 0 THEN Normalize(m \div 10, e - 1) ELSE [m |-> m, e |-> e]

\* float() raises ValueError unless the text is a number; the groups of the
\* pattern are signed decimals with a fractional part
IsFloatLiteral(s) == s # <<>> /\ MatchDecimal(s, 1) = Len(s) + 1

Float(s) ==
    LET neg == s[1] = "-"
        body == IF neg THEN Tail(s) ELSE s
        dot == CHOOSE k \in 1..Len(body) : body[k] = "."
        digits == SubSeq(body, 1, dot - 1) \o SubSeq(body, dot + 1, Len(body))
        mag == DigitsValue(digits)
    IN Normalize(IF neg THEN 0 - mag ELSE mag, Len(body) - dot)

RECURSIVE ToCoords(_)
ToCoords(coord_tuples) ==
    IF coord_tuples = <<>> THEN <<>>
    ELSE LET t == Head(coord_tuples)
         IN IF IsFloatLiteral(t.lon_str) /\ IsFloatLiteral(t.lat_str)
            THEN <<<<Float(t.lon_str), Float(t.lat_str)>>>> \o ToCoords(Tail(coord_tuples))
            ELSE ToCoords(Tail(coord_tuples))

\* lines 134-143: coords of a coordinates text (None or a string)
ParseCoordinates(text) ==
    IF Truthy(text) THEN ToCoords(FindAll(Strip(text), 1)) ELSE <<>>

(***************************************************************************)
(* Coordinate texts: whitespace-separated tuples lon,lat[,altitude].       *)
(***************************************************************************)
Numbers == {<<"1">>, <<"-", "1", ".", "5">>, <<"2", ".", "2", "5", "0">>}

CoordTuples ==
    {lon \o <<",">> \o lat : lon \in Numbers, lat \in Numbers}
    \cup {lon \o <<",">> \o lat \o <<",">> \o alt :
              lon \in Numbers, lat \in Numbers, alt \in Numbers}

RECURSIVE Join(_, _)
Join(ts, sep) ==
    IF ts = <<>> THEN <<>>
    ELSE IF Len(ts) = 1 THEN ts[1]
    ELSE ts[1] \o sep \o Join(Tail(ts), sep)

CoordTexts ==
    {None}
    \cup {Str(lead \o Join(ts, sep)) :
            lead \in {<<>>, <<"\n", " ">>},
            sep \in {<<" ">>, <<"\n">>},
            ts \in UNION {[1..n -> CoordTuples] : n \in 0..MaxTuples}}

InitCoords ==
    /\ coordinates_text \in CoordTexts
    /\ coords = Pending
    /\ IdlePipeline
    /\ IdleColor

CallParseCoordinates ==
    /\ coords = Pending
    /\ coords' = ParseCoordinates(coordinates_text)
    /\ UNCHANGED <<coordinates_text, pipelineVars, colorVars>>

NextCoords == CallParseCoordinates

SpecCoords == InitCoords /\ [][NextCoords]_vars

(***************************************************************************)
(* The document tree.  An element found by find() is a record with its     *)
(* text (None for an empty element) and whether it has child elements;     *)
(* NoElem is find() returning None.  root is the sequence of the Style,    *)
(* StyleMap and Placemark elements of the document in document order,      *)
(* which is the order of findall('.//tag').                                *)
(***************************************************************************)
NoElem == [found |-> FALSE, text |-> None, kids |-> FALSE]
Elem(text) == [found |-> TRUE, text |-> text, kids |-> FALSE]
ElemWithKids(text) == [found |-> TRUE, text |-> text, kids |-> TRUE]

\* bool(element): an Element is true iff it has child elements
ElemTruth(e) == e.found /\ e.kids

\* Python's  a or b  on two find() results
PyOr(a, b) == IF ElemTruth(a) THEN a ELSE b

\* x.text.strip() if x is not None and x.text else default
TextOr(e, default) == IF e.found /\ Truthy(e.text) THEN Strip(e.text) ELSE default

NullDetails == [icon |-> None, color |-> None]

\* dict operations: d[k] = v and d.get(k, default)
Put(d, k, v) == [x \in (DOMAIN d) \cup {k} |-> IF x = k THEN v ELSE d[x]]
Get(d, k, default) == IF k \in DOMAIN d THEN d[k] ELSE default

Key(id) == <<"#">> \o id

\* root.findall('.//tag')
RECURSIVE FindAllTag(_, _)
FindAllTag(doc, tag) ==
    IF doc = <<>> THEN <<>>
    ELSE IF Head(doc).tag = tag THEN <<Head(doc)>> \o FindAllTag(Tail(doc), tag)
    ELSE FindAllTag(Tail(doc), tag)

(***************************************************************************)
(* parse_kml_styles                                                        *)
(***************************************************************************)
\* lines 44-47: the element whose text is the raw colour
ColorElement(style) ==
    IF ~style.iconColor.found
    THEN PyOr(style.lineColor, style.polyColor)
    ELSE style.iconColor

\* lines 36-50: the details of one Style element
StyleDetails(style) ==
    LET color_element == ColorElement(style)
    IN [icon |-> TextOr(style.href, None),
        color |-> IF color_element.found /\ Truthy(color_element.text)
                  THEN kml_color_to_hex(Strip(color_element.text))
                  ELSE None]

\* a mutant of StoreStyle: an id already in the dict is not overwritten
StoreStyle_keep_first(d, style) ==
    IF ~Truthy(style.id) \/ Key(style.id) \in DOMAIN d THEN d
    ELSE Put(d, Key(style.id), StyleDetails(style))

\* lines 31-52: one iteration of the Style loop
StoreStyle(d, style) ==
    IF ~Truthy(style.id) THEN d
    ELSE Put(d, Key(style.id), StyleDetails(style))

\* line 61: find('Pair[key="normal"]/styleUrl'): the first styleUrl child of
\* a Pair that has a key child with text "normal"
RECURSIVE NormalPair(_)
NormalPair(pairs) ==
    IF pairs = <<>> THEN NoElem
    ELSE IF Head(pairs).key = <<"n", "o", "r", "m", "a", "l">> /\ Head(pairs).styleUrl.found
    THEN Head(pairs).styleUrl
    ELSE NormalPair(Tail(pairs))

\* a mutant of StoreStyleMap: the reference is looked up without strip()
StoreStyleMap_unstripped(d, sm) ==
    LET normal_pair == NormalPair(sm.pairs)
    IN IF ~Truthy(sm.id) THEN d
       ELSE IF normal_pair.found /\ Truthy(normal_pair.text)
       THEN Put(d, Key(sm.id), Get(d, normal_pair.text, NullDetails))
       ELSE d

\* lines 56-64: one iteration of the StyleMap loop
StoreStyleMap(d, sm) ==
    LET normal_pair == NormalPair(sm.pairs)
    IN IF ~Truthy(sm.id) THEN d
       ELSE IF normal_pair.found /\ Truthy(normal_pair.text)
       THEN Put(d, Key(sm.id), Get(d, Strip(normal_pair.text), NullDetails))
       ELSE d

(***************************************************************************)
(* extract_placemark_data: geometry and record of one Placemark            *)
(***************************************************************************)
NoGeom == [tag |-> "none", coords |-> NoElem, rings |-> <<>>]

\* placemark.find('.//tag') over the geometry elements below the placemark
RECURSIVE FindGeom(_, _)
FindGeom(geoms, tag) ==
    IF geoms = <<>> THEN NoGeom
    ELSE IF Head(geoms).tag = tag THEN Head(geoms)
    ELSE FindGeom(Tail(geoms), tag)

\* line 130: polygon.find('.//LinearRing/coordinates'): the coordinates child
\* of the first LinearRing, in document order, that has one
RECURSIVE RingCoordinates(_)
RingCoordinates(rings) ==
    IF rings = <<>> THEN NoElem
    ELSE IF Head(rings).coords.found THEN Head(rings).coords
    ELSE RingCoordinates(Tail(rings))

\* lines 111-132: (geom_type, coordinates_text)
Geometry(placemark) ==
    LET point == FindGeom(placemark.geoms, "Point")
        linestring == FindGeom(placemark.geoms, "LineString")
        polygon == FindGeom(placemark.geoms, "Polygon")
        textOf(e) == IF e.found THEN e.text ELSE None
    IN IF point # NoGeom
       THEN [type |-> "Point", text |-> textOf(point.coords)]
       ELSE IF linestring # NoGeom
       THEN [type |-> "LineString", text |-> textOf(linestring.coords)]
       ELSE IF polygon # NoGeom
       THEN [type |-> "Polygon", text |-> textOf(RingCoordinates(polygon.rings))]
       ELSE [type |-> "Unknown", text |-> None]

NoName == <<"N", "o", " ", "N", "a", "m", "e">>
NoDescription ==
    <<"N", "o", " ", "D", "e", "s", "c", "r", "i", "p", "t", "i", "o", "n">>

\* lines 98-102: name and description
NameOf(e, default) == TextOr(e, default)

\* a mutant of Record: the styleUrl is looked up without strip()
Record_unstripped_url(placemark, style_lookup) ==
    LET style_url == IF placemark.styleUrl.found /\ Truthy(placemark.styleUrl.text)
                     THEN placemark.styleUrl.text ELSE None
        style_details == Get(style_lookup, style_url, NullDetails)
        g == Geometry(placemark)
    IN [name |-> NameOf(placemark.name, NoName),
        description |-> NameOf(placemark.description, NoDescription),
        type |-> g.type,
        coordinates |-> ParseCoordinates(g.text),
        color |-> style_details.color,
        icon |-> style_details.icon]

\* lines 98-154: the record the loop body builds for one placemark
Record(placemark, style_lookup) ==
    LET style_url == TextOr(placemark.styleUrl, None)
        style_details == Get(style_lookup, style_url, NullDetails)
        g == Geometry(placemark)
    IN [name |-> NameOf(placemark.name, NoName),
        description |-> NameOf(placemark.description, NoDescription),
        type |-> g.type,
        coordinates |-> ParseCoordinates(g.text),
        color |-> style_details.color,
        icon |-> style_details.icon]

\* a mutant of Emit: every record is appended
Emit_always(data, record) == Append(data, record)

\* lines 145-154: only placemarks that have coordinates are appended
Emit(data, record) ==
    IF record.coordinates # <<>> THEN Append(data, record) ELSE data

(***************************************************************************)
(* extract_placemark_data, step by step.  A file is described by what      *)
(* decides the outcome of ET.parse, of open().read() as UTF-8 and of       *)
(* ET.fromstring on the cleaned text: whether it exists, is valid UTF-8,   *)
(* holds control characters XML forbids, and is well-formed apart from     *)
(* those; doc is the tree a successful parse gives.                        *)
(***************************************************************************)
ParseErrorOn(f) == ~f.utf8 \/ f.ctrl \/ ~f.wellformed

\* lines 73-75, 85-89: ET.parse(file_path) and its except/else clauses
ParseFile ==
    /\ pc = "parse"
    /\ IF ~file.exists
       THEN \* FileNotFoundError: caught, return []
            /\ result' = Returned(<<>>)
            /\ pc' = "gave_up"
            /\ UNCHANGED <<root, idx, parses>>
       ELSE IF ParseErrorOn(file)
       THEN /\ pc' = "fallback_read"
            /\ parses' = parses + 1
            /\ UNCHANGED <<root, idx, result>>
       ELSE /\ root' = file.doc
            /\ pc' = "styles"
            /\ idx' = 1
            /\ parses' = parses + 1
            /\ UNCHANGED result
    /\ UNCHANGED <<file, style_map, placemarks_data, xml_content, colorVars, coordVars>>

\* lines 77-79: read the file as UTF-8 and drop the category-C characters
\* other than tab, newline and carriage return
ReadAndClean ==
    /\ pc = "fallback_read"
    /\ IF ~file.utf8
       THEN \* UnicodeDecodeError inside the except clause: no handler
            /\ result' = Raised("UnicodeDecodeError")
            /\ pc' = "raised"
            /\ UNCHANGED xml_content
       ELSE /\ xml_content' = [ctrl |-> FALSE, wellformed |-> file.wellformed,
                               doc |-> file.doc]
            /\ pc' = "fallback_parse"
            /\ UNCHANGED result
    /\ UNCHANGED <<file, root, style_map, idx, placemarks_data, parses,
                   colorVars, coordVars>>

\* lines 80-84: ET.fromstring(xml_content)
ParseCleaned ==
    /\ pc = "fallback_parse"
    /\ parses' = parses + 1
    /\ IF xml_content.ctrl \/ ~xml_content.wellformed
       THEN /\ result' = Returned(<<>>)
            /\ pc' = "gave_up"
            /\ UNCHANGED <<root, idx>>
       ELSE /\ root' = xml_content.doc
            /\ pc' = "styles"
            /\ idx' = 1
            /\ UNCHANGED result
    /\ UNCHANGED <<file, style_map, placemarks_data, xml_content, colorVars, coordVars>>

\* lines 31-52: one iteration of  for style in root.findall('.//Style')
StyleStep ==
    /\ pc = "styles"
    /\ idx <= Len(FindAllTag(root, "Style"))
    /\ style_map' = StoreStyle(style_map, FindAllTag(root, "Style")[idx])
    /\ idx' = idx + 1
    /\ UNCHANGED <<pc, file, root, placemarks_data, result, parses, xml_content,
                   colorVars, coordVars>>

StylesDone ==
    /\ pc = "styles"
    /\ idx > Len(FindAllTag(root, "Style"))
    /\ pc' = "stylemaps"
    /\ idx' = 1
    /\ UNCHANGED <<file, root, style_map, placemarks_data, result, parses, xml_content,
                   colorVars, coordVars>>

\* lines 56-64: one iteration of  for style_map_element in findall('.//StyleMap')
StyleMapStep ==
    /\ pc = "stylemaps"
    /\ idx <= Len(FindAllTag(root, "StyleMap"))
    /\ style_map' = StoreStyleMap(style_map, FindAllTag(root, "StyleMap")[idx])
    /\ idx' = idx + 1
    /\ UNCHANGED <<pc, file, root, placemarks_data, result, parses, xml_content,
                   colorVars, coordVars>>

\* line 66 and lines 91-95: parse_kml_styles returns, the placemark loop starts
StyleMapsDone ==
    /\ pc = "stylemaps"
    /\ idx > Len(FindAllTag(root, "StyleMap"))
    /\ pc' = "placemarks"
    /\ idx' = 1
    /\ UNCHANGED <<file, root, style_map, placemarks_data, result, parses, xml_content,
                   colorVars, coordVars>>

\* lines 97-154: one iteration of  for placemark in findall('.//Placemark')
PlacemarkStep ==
    /\ pc = "placemarks"
    /\ idx <= Len(FindAllTag(root, "Placemark"))
    /\ placemarks_data' =
           Emit(placemarks_data, Record(FindAllTag(root, "Placemark")[idx], style_map))
    /\ idx' = idx + 1
    /\ UNCHANGED <<pc, file, root, style_map, result, parses, xml_content,
                   colorVars, coordVars>>

\* line 156
Return ==
    /\ pc = "placemarks"
    /\ idx > Len(FindAllTag(root, "Placemark"))
    /\ result' = Returned(placemarks_data)
    /\ pc' = "done"
    /\ UNCHANGED <<file, root, style_map, idx, placemarks_data, parses, xml_content,
                   colorVars, coordVars>>

(***************************************************************************)
(* Input documents.                                                        *)
(***************************************************************************)
Red == <<"f", "f", "0", "0", "0", "0", "f", "f">>
Green == <<"f", "f", "0", "0", "f", "f", "0", "0">>
Blue == <<" ", "F", "F", "f", "f", "0", "0", "0", "0", "\n">>

Style(id, href, iconColor, lineColor, polyColor) ==
    [tag |-> "Style", id |-> id, href |-> href, iconColor |-> iconColor,
     lineColor |-> lineColor, polyColor |-> polyColor]

Pair(key, styleUrl) == [key |-> key, styleUrl |-> styleUrl]

StyleMap(id, pairs) == [tag |-> "StyleMap", id |-> id, pairs |-> pairs]

Placemark(name, description, styleUrl, geoms) ==
    [tag |-> "Placemark", name |-> name, description |-> description,
     styleUrl |-> styleUrl, geoms |-> geoms]

Geom(tag, c) == [tag |-> tag, coords |-> c, rings |-> <<>>]
Ring(boundary, c) == [boundary |-> boundary, coords |-> c]
Polygon(rings) == [tag |-> "Polygon", coords |-> NoElem, rings |-> rings]

IdA == <<"a">>
IdB == <<"b">>
Icon1 == <<" ", "i", "1">>
Icon2 == <<"i", "2">>
Highlight == <<"h", "i", "g", "h", "l", "i", "g", "h", "t">>
Normal == <<"n", "o", "r", "m", "a", "l">>
RefA == <<"#", "a">>
RefB == <<" ", "#", "b", "\n">>
RefC == <<"#", "c">>
Here == <<"1", ".", "5", ",", "2", ".", "5", ",", "0">>
There == <<"\n", "3", ".", "5", ",", "-", "4", ".", "2", "5", " ", "5", ".", "0", ",", "6", ".", "5", "\n">>
Hole == <<"9", ".", "5", ",", "9", ".", "5">>
Whole == <<"1", "2", "1", ",", "2", "4">>

\* styles, style maps and placemarks that share the ids a and b
StyleNodes ==
    {Style(IdA, Elem(Icon1), Elem(Red), NoElem, NoElem),
     Style(IdA, Elem(Icon2), Elem(Blue), NoElem, NoElem),
     Style(IdB, Elem(Icon2), Elem(Blue), NoElem, NoElem),
     Style(None, Elem(Icon1), Elem(Red), NoElem, NoElem)}
    \cup {StyleMap(id, <<Pair(Highlight, Elem(RefA)), Pair(Normal, Elem(ref))>>) :
            id \in {IdA, IdB}, ref \in {RefA, RefB, RefC}}
    \cup {StyleMap(IdA, <<Pair(Highlight, Elem(RefB)), Pair(Normal, NoElem)>>),
          StyleMap(None, <<Pair(Normal, Elem(RefA))>>)}
    \cup {Placemark(NoElem, NoElem, Elem(ref), <<Geom("Point", Elem(Here))>>) :
            ref \in {RefA, RefB}}

\* styles that differ in which colour elements they have
ColorNodes ==
    {Style(IdA, NoElem, icon, line, poly) :
        icon \in {NoElem, Elem(None), Elem(Red)},
        line \in {NoElem, Elem(Green), ElemWithKids(Green)},
        poly \in {NoElem, Elem(Blue)}}

Texts == {NoElem, Elem(None), Elem(<<" ", "\n">>), Elem(<<" ", "x", " ">>)}

\* placemarks that differ in names, descriptions and geometry
PlacemarkNodes ==
    {Placemark(name, NoElem, NoElem, <<Geom("Point", Elem(Here))>>) : name \in Texts}
    \cup {Placemark(NoElem, description, NoElem, <<Geom("LineString", Elem(There))>>) :
            description \in Texts}
    \cup {Placemark(NoElem, NoElem, NoElem, geoms) :
            geoms \in {<<>>,
                       <<Geom("Point", NoElem)>>,
                       <<Geom("Point", Elem(Whole))>>,
                       <<Geom("LineString", Elem(None))>>,
                       <<Polygon(<<Ring("outerBoundaryIs", Elem(Here)),
                                   Ring("innerBoundaryIs", Elem(Hole))>>)>>,
                       <<Polygon(<<Ring("innerBoundaryIs", Elem(Hole)),
                                   Ring("outerBoundaryIs", Elem(Here))>>)>>,
                       <<Polygon(<<Ring("outerBoundaryIs", NoElem),
                                   Ring("innerBoundaryIs", Elem(Hole))>>)>>,
                       <<Polygon(<<Ring("outerBoundaryIs", Elem(There))>>),
                         Geom("LineString", Elem(Here))>>}}

SeqsUpTo(S, n) == UNION {[1..k -> S] : k \in 0..n}

Docs ==
    SeqsUpTo(StyleNodes, MaxNodes)
    \cup SeqsUpTo(ColorNodes, MaxColorStyles)
    \cup SeqsUpTo(PlacemarkNodes, MaxPlacemarks)

GoodFile(doc) ==
    [exists |-> TRUE, utf8 |-> TRUE, ctrl |-> FALSE, wellformed |-> TRUE, doc |-> doc]

\* the missing file, and files the first parse may reject
OtherFiles ==
    {NoFile}
    \cup {[exists |-> TRUE, utf8 |-> u, ctrl |-> c, wellformed |-> w,
           doc |-> IF w THEN d ELSE <<>>] :
            u \in BOOLEAN, c \in BOOLEAN, w \in BOOLEAN,
            d \in SeqsUpTo(PlacemarkNodes, 1)}

Init ==
    /\ file \in {GoodFile(doc) : doc \in Docs} \cup OtherFiles
    /\ pc = "parse"
    /\ root = None
    /\ style_map = <<>>
    /\ idx = 0
    /\ placemarks_data = <<>>
    /\ result = NotReturned
    /\ parses = 0
    /\ xml_content = None
    /\ IdleColor
    /\ IdleCoords

Next ==
    \/ ParseFile
    \/ ReadAndClean
    \/ ParseCleaned
    \/ StyleStep
    \/ StylesDone
    \/ StyleMapStep
    \/ StyleMapsDone
    \/ PlacemarkStep
    \/ Return

Spec == Init /\ [][Next]_vars

(***************************************************************************)
(* Claims about the two pure functions.                                    *)
(***************************************************************************)

\* the KML encoding AA BB GG RR of a colour RRGGBB with alpha AA
EncodeKml(aa, rgb) == aa \o Slice(rgb, 4, 6) \o Slice(rgb, 2, 4) \o Slice(rgb, 0, 2)

\* C10: kml_color_to_hex round-trips: for every 6-hex-digit RRGGBB and every
\* 2-hex-digit alpha AA, decoding AA+BB+GG+RR returns "#" followed by RRGGBB
\* uppercased; every input whose length is not 8 (empty and None included)
\* returns None.
C10_ColorRoundTrip ==
    hex_color # Pending =>
        /\ \A rgb \in [1..6 -> HexChars] :
              (kml_color # None /\ Len(kml_color) = 8
                 /\ kml_color = EncodeKml(Slice(kml_color, 0, 2), rgb))
              => hex_color = <<"#">> \o Upper(rgb)
        /\ (kml_color = None \/ Len(kml_color) # 8) => hex_color = None
        /\ (kml_color # None /\ Len(kml_color) = 8) => hex_color # None

C10_Witness ==
    /\ kml_color = <<"F", "F", "0", "0", "a", "a", "F", "0">>
    /\ hex_color = <<"#", "F", "0", "A", "A", "0", "0">>

RECURSIVE Split(_, _, _)
Split(s, seps, cur) ==
    IF s = <<>> THEN <<cur>>
    ELSE IF Head(s) \in seps THEN <<cur>> \o Split(Tail(s), seps, <<>>)
    ELSE Split(Tail(s), seps, Append(cur, Head(s)))

NonEmpty(t) == t # <<>>

\* the whitespace-separated tuples of a coordinate text
TuplesOf(text) == SelectSeq(Split(text, Whitespace, <<>>), NonEmpty)

HasFraction(num) == \E k \in 1..Len(num) : num[k] = "."

\* one [lon, lat] per tuple whose lon and lat both have a fractional part
RECURSIVE PairsOfTuples(_)
PairsOfTuples(ts) ==
    IF ts = <<>> THEN <<>>
    ELSE LET f == Split(Head(ts), {","}, <<>>)
         IN IF Len(f) \in {2, 3} /\ HasFraction(f[1]) /\ HasFraction(f[2])
            THEN <<<<Float(f[1]), Float(f[2])>>>> \o PairsOfTuples(Tail(ts))
            ELSE PairsOfTuples(Tail(ts))

\* C6: the coordinate parser returns, in text order, exactly one [lon, lat]
\* for each whitespace-separated tuple lon,lat[,altitude] whose lon and lat
\* both have a fractional part, the altitude discarded; a tuple whose lon or
\* lat is an integer contributes no pair; empty or absent text yields the
\* empty sequence.
C6_OnePairPerDecimalTuple ==
    coords # Pending =>
        coords = (IF Truthy(coordinates_text)
                  THEN PairsOfTuples(TuplesOf(coordinates_text))
                  ELSE <<>>)

\* where the parser and C6 agree: no tuple has an integer lon before a
\* decimal lat and a decimal altitude
C6_AgreesElsewhere ==
    (coords # Pending /\ Truthy(coordinates_text)
       /\ \A k \in 1..Len(TuplesOf(coordinates_text)) :
             LET f == Split(TuplesOf(coordinates_text)[k], {","}, <<>>)
             IN ~(Len(f) = 3 /\ ~HasFraction(f[1]) /\ HasFraction(f[2]) /\ HasFraction(f[3])))
    => coords = PairsOfTuples(TuplesOf(coordinates_text))

(***************************************************************************)
(* Claims about the style resolver.  They are read off the document: the   *)
(* positions below are positions in root, that is, document order.         *)
(***************************************************************************)
\* parse_kml_styles has returned
StylesBuilt == pc \in {"placemarks", "done"}

StoresStyle(n) == n.tag = "Style" /\ Truthy(n.id)

\* a StyleMap with an id and a non-empty styleUrl in a "normal" pair
StoresMap(n) ==
    /\ n.tag = "StyleMap"
    /\ Truthy(n.id)
    /\ \E k \in 1..Len(n.pairs) :
          /\ n.pairs[k].key = Normal
          /\ n.pairs[k].styleUrl.found
          /\ Truthy(n.pairs[k].styleUrl.text)
          /\ \A h \in 1..(k - 1) : ~(n.pairs[h].key = Normal /\ n.pairs[h].styleUrl.found)

\* the trimmed styleUrl of the first "normal" pair that has one
RefOf(n) ==
    LET k == CHOOSE h \in 1..Len(n.pairs) :
                 /\ n.pairs[h].key = Normal /\ n.pairs[h].styleUrl.found
                 /\ \A g \in 1..(h - 1) :
                       ~(n.pairs[g].key = Normal /\ n.pairs[g].styleUrl.found)
    IN Strip(n.pairs[k].styleUrl.text)

StylePositions(K) == {i \in 1..Len(root) : StoresStyle(root[i]) /\ Key(root[i].id) = K}
MapPositions(K) == {i \in 1..Len(root) : StoresMap(root[i]) /\ Key(root[i].id) = K}

Max(S) == CHOOSE x \in S : \A y \in S : y <= x

DefinedKeys ==
    {Key(root[i].id) : i \in {h \in 1..Len(root) : StoresStyle(root[h]) \/ StoresMap(root[h])}}

\* the entry of the last Style in document order that bears the key, if any
LastStyleEntry(K) ==
    IF StylePositions(K) = {} THEN NullDetails
    ELSE StyleDetails(root[Max(StylePositions(K))])

\* the raw colour the claimed priority picks: IconStyle, LineStyle, PolyStyle
PriorityColor(style) ==
    IF style.iconColor.found THEN style.iconColor.text
    ELSE IF style.lineColor.found THEN style.lineColor.text
    ELSE IF style.polyColor.found THEN style.polyColor.text
    ELSE None

\* C1: for every Style with an id the raw colour of its entry is chosen by
\* priority IconStyle colour, then LineStyle colour, then PolyStyle colour: a
\* Style with no IconStyle colour but a LineStyle colour gets the decoded
\* LineStyle colour whether or not a PolyStyle colour is present, and the
\* PolyStyle colour is used only when both others are absent.  (Stated for
\* the Styles whose chosen colour element has text, and whose entry no later
\* definition overwrites.)
C1_ColorPriority ==
    StylesBuilt =>
        \A K \in DOMAIN style_map :
            (MapPositions(K) = {} /\ StylePositions(K) # {})
            => LET style == root[Max(StylePositions(K))]
                   raw == PriorityColor(style)
               IN Truthy(raw) => style_map[K].color = kml_color_to_hex(Strip(raw))

\* the entry a StyleMap at position j stores: that of the nearest StyleMap
\* before it that bears the referenced key, else that of the last Style
\* bearing the key, else the null entry
RECURSIVE Resolved(_)
Resolved(j) ==
    LET R == RefOf(root[j])
        E == {i \in MapPositions(R) : i < j}
    IN IF E = {} THEN LastStyleEntry(R) ELSE Resolved(Max(E))

\* the StyleMap at position j decides the entry of its key, and its normal
\* pair references an id that no Style but another StyleMap bears
ReferencesStyleMap(j) ==
    /\ StoresMap(root[j])
    /\ j = Max(MapPositions(Key(root[j].id)))
    /\ StylePositions(RefOf(root[j])) = {}
    /\ \E i \in 1..Len(root) :
          /\ i # j
          /\ root[i].tag = "StyleMap"
          /\ Truthy(root[i].id)
          /\ Key(root[i].id) = RefOf(root[j])

HasCoordinates(placemark) == ParseCoordinates(Geometry(placemark).text) # <<>>

EmittedUpTo(k) ==
    Len(SelectSeq(SubSeq(FindAllTag(root, "Placemark"), 1, k), HasCoordinates))

\* the trimmed styleUrl of a placemark
StyleUrlOf(placemark) ==
    IF placemark.styleUrl.found /\ Truthy(placemark.styleUrl.text)
    THEN Strip(placemark.styleUrl.text)
    ELSE None

\* every record of a placemark whose styleUrl is K carries the entry e
RecordsCarry(K, e) ==
    \A k \in 1..Len(FindAllTag(root, "Placemark")) :
        LET placemark == FindAllTag(root, "Placemark")[k]
        IN (StyleUrlOf(placemark) = K /\ HasCoordinates(placemark))
           => /\ EmittedUpTo(k) <= Len(result.value)
              /\ result.value[EmittedUpTo(k)].icon = e.icon
              /\ result.value[EmittedUpTo(k)].color = e.color

\* the normal pair of the StyleMap at position j names a Style of the document
NamesStyle(j) == StoresMap(root[j]) /\ StylePositions(RefOf(root[j])) # {}

\* C5 as claimed: for every StyleMap with an id whose normal styleUrl names a
\* Style id defined anywhere in the document, the entry under "#" + map-id
\* has the same icon and color as the entry under that Style's key, and a
\* placemark whose styleUrl is the map's key gets them on its record.
C5_StyleMapEqualsStyle ==
    StylesBuilt =>
        \A j \in 1..Len(root) :
            NamesStyle(j)
            => /\ style_map[Key(root[j].id)] = style_map[RefOf(root[j])]
               /\ pc = "done" => RecordsCarry(Key(root[j].id), style_map[RefOf(root[j])])

\* no other StyleMap stores under the named Style's key, and no later
\* StyleMap stores under the map's own key
Undisturbed(j) ==
    /\ MapPositions(RefOf(root[j])) \subseteq {j}
    /\ j = Max(MapPositions(Key(root[j].id)))

\* C5 as amended: the same, provided no other StyleMap with a non-empty
\* normal styleUrl bears that Style's id and no later one bears the map's own
\* id; the entry is then that of the last Style with the named id, and a
\* placemark that has a record and whose trimmed styleUrl is the map's key
\* carries it.
C5_UndisturbedStyleMapEqualsStyle ==
    StylesBuilt =>
        \A j \in 1..Len(root) :
            (NamesStyle(j) /\ Undisturbed(j))
            => /\ style_map[Key(root[j].id)] = style_map[RefOf(root[j])]
               /\ style_map[Key(root[j].id)] = LastStyleEntry(RefOf(root[j]))
               /\ pc = "done" => RecordsCarry(Key(root[j].id), LastStyleEntry(RefOf(root[j])))

\* a record carries the icon and colour of a Style reached through a StyleMap
\* that has another id than the Style
C5_Witness ==
    /\ pc = "done"
    /\ \E j \in 1..Len(root) :
          /\ NamesStyle(j) /\ Undisturbed(j)
          /\ Key(root[j].id) # RefOf(root[j])
          /\ LastStyleEntry(RefOf(root[j])) # NullDetails
          /\ \E k \in 1..Len(FindAllTag(root, "Placemark")) :
                /\ StyleUrlOf(FindAllTag(root, "Placemark")[k]) = Key(root[j].id)
                /\ FindAllTag(root, "Placemark")[k].styleUrl.text # Key(root[j].id)
                /\ result.value[EmittedUpTo(k)].color = LastStyleEntry(RefOf(root[j])).color

\* C9 as claimed: the lookup holds one entry per key, and when an id is on
\* more than one Style or StyleMap the entry under "#" + id is that of the
\* last such definition in document order; a Style that follows a StyleMap
\* with the same id determines the entry.
C9_LastInDocumentOrderWins ==
    StylesBuilt =>
        /\ DOMAIN style_map = DefinedKeys
        /\ \A K \in DefinedKeys :
              LET j == Max(StylePositions(K) \cup MapPositions(K))
              IN style_map[K] =
                     (IF root[j].tag = "Style" THEN StyleDetails(root[j]) ELSE Resolved(j))

\* C9 as amended: the entry is that of the last definition in processing
\* order, all Styles in document order and then all StyleMaps with a
\* non-empty normal styleUrl in document order: such a StyleMap overrides
\* every Style with its id wherever they stand, the last of several
\* StyleMaps wins, and without one the last Style wins.
C9_LastInProcessingOrderWins ==
    StylesBuilt =>
        /\ DOMAIN style_map = DefinedKeys
        /\ \A K \in DefinedKeys :
              style_map[K] =
                  (IF MapPositions(K) = {}
                   THEN StyleDetails(root[Max(StylePositions(K))])
                   ELSE Resolved(Max(MapPositions(K))))

\* a Style follows a StyleMap with the same id and the entry is the map's
C9_Witness ==
    /\ StylesBuilt
    /\ \E K \in DefinedKeys :
          /\ MapPositions(K) # {} /\ StylePositions(K) # {}
          /\ Max(StylePositions(K)) > Max(MapPositions(K))
          /\ style_map[K] # StyleDetails(root[Max(StylePositions(K))])
          /\ style_map[K] # NullDetails

(***************************************************************************)
(* Claims about the placemark extractor and the loader.                    *)
(***************************************************************************)
Placemarks == FindAllTag(root, "Placemark")

\* C2: a record is emitted for a placemark if and only if its parsed
\* coordinate sequence is non-empty, so every record has at least one pair,
\* and the records are in the document order of their placemarks.
C2_RecordsAreThePlacemarksWithCoordinates ==
    pc = "done" =>
        LET kept == SelectSeq(Placemarks, HasCoordinates)
        IN /\ Len(result.value) = Len(kept)
           /\ \A k \in 1..Len(result.value) :
                 /\ result.value[k].coordinates # <<>>
                 /\ result.value[k] = Record(kept[k], style_map)

\* a placemark without coordinates is skipped and the one after it emitted
C2_Witness ==
    /\ pc = "done"
    /\ Len(Placemarks) = 2
    /\ ~HasCoordinates(Placemarks[1])
    /\ Len(result.value) = 1
    /\ Len(result.value[1].coordinates) = 2

HasRing(polygon, boundary) ==
    \E k \in 1..Len(polygon.rings) : polygon.rings[k].boundary = boundary

\* the coordinates text of the outer boundary's ring
OuterText(polygon) ==
    LET k == CHOOSE h \in 1..Len(polygon.rings) :
                 polygon.rings[h].boundary = "outerBoundaryIs"
    IN IF polygon.rings[k].coords.found THEN polygon.rings[k].coords.text ELSE None

\* C3: for a Polygon placemark with an outer boundary ring and one or more
\* inner boundary rings, in any order, the emitted coordinates are exactly
\* the outer ring's and no inner ring is read.  (Stated for the polygons
\* whose outer ring has a coordinates element.)
C3_OuterRingOnly ==
    pc = "done" =>
        \A k \in 1..Len(Placemarks) :
            LET g == Placemarks[k].geoms
            IN (Len(g) = 1 /\ g[1].tag = "Polygon"
                  /\ HasRing(g[1], "outerBoundaryIs") /\ HasRing(g[1], "innerBoundaryIs")
                  /\ OuterText(g[1]) # None)
               => IF ParseCoordinates(OuterText(g[1])) = <<>>
                  THEN ~HasCoordinates(Placemarks[k])
                  ELSE /\ HasCoordinates(Placemarks[k])
                       /\ result.value[EmittedUpTo(k)].coordinates =
                              ParseCoordinates(OuterText(g[1]))

\* C7: loading never raises to the caller and parses at most twice: a
\* missing file returns an empty list; a parse failure triggers exactly one
\* retry on the cleaned text, and if that fails too the result is an empty
\* list; every failure path ends in a returned list.
C7_NeverRaises ==
    /\ result.state # "raised"
    /\ parses <= 2
    /\ pc = "gave_up" => result = Returned(<<>>)
    /\ (pc \in {"done", "gave_up"} /\ ~file.exists) => result = Returned(<<>>)

\* the text a name or description is claimed to become
ClaimedText(e, default) ==
    IF e.found /\ e.text # None /\ Strip(e.text) # <<>> THEN Strip(e.text) ELSE default

\* C8: the name of every record is the trimmed text of the name child, or
\* "No Name" when the child is absent or its trimmed text is empty
\* (whitespace-only text included); likewise the description and
\* "No Description"; so no record has an empty name or description.
C8_NameAndDescriptionDefaults ==
    pc = "done" =>
        /\ \A k \in 1..Len(Placemarks) :
              HasCoordinates(Placemarks[k])
              => /\ result.value[EmittedUpTo(k)].name =
                        ClaimedText(Placemarks[k].name, NoName)
                 /\ result.value[EmittedUpTo(k)].description =
                        ClaimedText(Placemarks[k].description, NoDescription)
        /\ \A k \in 1..Len(result.value) :
              result.value[k].name # <<>> /\ result.value[k].description # <<>>

====
